---- MODULE Spec2Model ----
(***************************************************************************)
(* Model of src/ipa/ipu3/aiq.cpp: the AIQBinaryData calibration blob       *)
(* loader and the AIQ wrapper around the Intel IA imaging engine.          *)
(*                                                                         *)
(* The engine (ia_aiq_init, ia_aiq_statistics_set, ia_aiq_deinit) and the  *)
(* File class are the environment: their results are drawn from small sets *)
(* and every call that reaches them is recorded.                           *)
(***************************************************************************)
EXTENDS Integers, Sequences, FiniteSets, TLC

VARIABLES
    \* ---- one AIQBinaryData object (aiq.cpp:25-37) ----
    blob,        \* [iaBinaryData_ : [data, size], data_ : [addr, size, cap]]
    nextAddr,    \* the address the next heap allocation returns
    lastLoad,    \* <<>> or <<[ret, file]>>: the most recent load() on blob
    prevLoad,    \* the load() before lastLoad, same shape
    firstView,   \* <<>> or <<view>>: iaBinaryData_ after the first successful load
    \* ---- one AIQ session (aiq.cpp:81-167) ----
    aiq_,        \* the ia_aiq * member
    initHandle,  \* <<>> or <<h>>: what the most recent init() stored in aiq_
    initRet,     \* <<>> or <<r>>: what the most recent init() returned
    destroyed,   \* how many times ~AIQ() has run on the session
    nextHandle,  \* the engine instance the next successful ia_aiq_init returns
    initCalls,   \* how many times ia_aiq_init has been invoked
    deinitCount, \* handle -> number of ia_aiq_deinit calls made with it
    last,        \* the most recent call on the session
    prev         \* the call before last, in brief

blobVars == <<blob, nextAddr, lastLoad, prevLoad, firstView>>
aiqVars  == <<aiq_, initHandle, initRet, destroyed, nextHandle, initCalls,
              deinitCount, last, prev>>
vars     == <<blobVars, aiqVars>>

----------------------------------------------------------------------------
\* Bounds of the model.

\* largest resource size, in bytes
MaxFileSize == 2
\* heap allocations one AIQBinaryData object may make
MaxAllocs == 3
\* ia_aiq_init invocations on one session, each of which may create an engine
MaxEngines == 2
\* ~AIQ() runs on one session (2 = a double destruction)
MaxDestroy == 2
\* largest frame number handed to setStatistics / run
MaxFrame == 1
\* distinct contents an uninitialised aic_config may hold (0..MaxConfig)
MaxConfig == 1

----------------------------------------------------------------------------
\* errno values returned by the code (negated at the return statements).
ENOENT  == 2
EINVAL  == 22
ENODATA == 61

Max(a, b) == IF a >= b THEN a ELSE b

----------------------------------------------------------------------------
\* AIQBinaryData

\* nullptr
NullPtr == 0

\* AIQBinaryData::AIQBinaryData(): a null view and an empty vector.
AIQBinaryData ==
    [iaBinaryData_ |-> [data |-> NullPtr, size |-> 0],
     data_         |-> [addr |-> NullPtr, size |-> 0, cap |-> 0]]

\* What File reports for one resource: exists(), open(), size() (negative on
\* failure) and read() (negative on failure, else the bytes read, at most the
\* span handed in). Fields a load never reaches are left at -1.
FileOutcomes ==
    {[exists |-> FALSE, opens |-> FALSE, size |-> -1, read |-> -1],
     [exists |-> TRUE,  opens |-> FALSE, size |-> -1, read |-> -1],
     [exists |-> TRUE,  opens |-> TRUE,  size |-> -1, read |-> -1]}
    \cup {f \in [exists : {TRUE}, opens : {TRUE}, size : 0..MaxFileSize,
                 read : (-1)..MaxFileSize] : f.read <= f.size}

\* The primary calibration resource as init() can find it: one outcome for
\* each way load() can end (a failed read standing for every short read), the
\* resource empty or of the largest size.
PrimaryOutcomes ==
    {f \in FileOutcomes :
        f.size >= 0 => f.size \in {0, MaxFileSize} /\ f.read \in {-1, f.size}}

\* The resources behind the nvm and aiqd blobs: missing, or present and
\* readable in full.
OtherOutcomes ==
    {f \in FileOutcomes : ~f.exists \/ (f.size = MaxFileSize /\ f.read = f.size)}

\* data_.resize(n): std::vector reallocates exactly when n exceeds the
\* capacity; the new block is at addr and holds newCap >= n elements.
resize(v, n, addr, newCap) ==
    IF n > v.cap
    THEN [addr |-> addr, size |-> n, cap |-> newCap]
    ELSE [v EXCEPT !.size = n]

\* The capacities a reallocating resize(n) may pick (exact fit or doubling).
GrowCaps(v, n) == {n, Max(n, 2 * v.cap)}

\* Mutant: the size() failure is reported with the same errno as open().
load_sizeAsEINVAL(obj, f, addr, newCap) ==
    IF ~f.exists THEN [obj |-> obj, ret |-> -ENOENT]
    ELSE IF ~f.opens THEN [obj |-> obj, ret |-> -EINVAL]
    ELSE IF f.size < 0 THEN [obj |-> obj, ret |-> -EINVAL]
    ELSE LET d == resize(obj.data_, f.size, addr, newCap) IN
         IF f.read # f.size
         THEN [obj |-> [obj EXCEPT !.data_ = d], ret |-> -EINVAL]
         ELSE [obj |-> [iaBinaryData_ |-> [data |-> d.addr, size |-> f.size],
                        data_ |-> d],
               ret |-> 0]

\* Mutant: the bytesRead != fileSize test is missing.
load_noReadCheck(obj, f, addr, newCap) ==
    IF ~f.exists THEN [obj |-> obj, ret |-> -ENOENT]
    ELSE IF ~f.opens THEN [obj |-> obj, ret |-> -EINVAL]
    ELSE IF f.size < 0 THEN [obj |-> obj, ret |-> -ENODATA]
    ELSE LET d == resize(obj.data_, f.size, addr, newCap) IN
         [obj |-> [iaBinaryData_ |-> [data |-> d.addr, size |-> f.size],
                   data_ |-> d],
          ret |-> 0]

\* Mutant: the view is set right after the resize, before the read is checked.
load_viewBeforeRead(obj, f, addr, newCap) ==
    IF ~f.exists THEN [obj |-> obj, ret |-> -ENOENT]
    ELSE IF ~f.opens THEN [obj |-> obj, ret |-> -EINVAL]
    ELSE IF f.size < 0 THEN [obj |-> obj, ret |-> -ENODATA]
    ELSE LET d == resize(obj.data_, f.size, addr, newCap) IN
         [obj |-> [iaBinaryData_ |-> [data |-> d.addr, size |-> f.size],
                   data_ |-> d],
          ret |-> IF f.read # f.size THEN -EINVAL ELSE 0]

\* AIQBinaryData::load(filename) on object obj, the file behaving as f.
\* Result: the object afterwards and the value returned.
load(obj, f, addr, newCap) ==
    IF ~f.exists THEN [obj |-> obj, ret |-> -ENOENT]
    ELSE IF ~f.opens THEN [obj |-> obj, ret |-> -EINVAL]
    ELSE IF f.size < 0 THEN [obj |-> obj, ret |-> -ENODATA]
    ELSE LET d == resize(obj.data_, f.size, addr, newCap) IN
         IF f.read # f.size
         THEN [obj |-> [obj EXCEPT !.data_ = d], ret |-> -EINVAL]
         ELSE [obj |-> [iaBinaryData_ |-> [data |-> d.addr, size |-> f.size],
                        data_ |-> d],
               ret |-> 0]

\* A caller invokes load() on the object (again, after the first time).
AIQBinaryData_load ==
    /\ nextAddr <= MaxAllocs
    /\ \E f \in FileOutcomes :
       \E c \in GrowCaps(blob.data_, Max(f.size, 0)) :
         LET r == load(blob, f, nextAddr, c) IN
         /\ blob' = r.obj
         /\ nextAddr' = IF r.obj.data_.addr # blob.data_.addr
                        THEN nextAddr + 1 ELSE nextAddr
         /\ prevLoad' = lastLoad
         /\ lastLoad' = <<[ret |-> r.ret, file |-> f]>>
         /\ firstView' = IF firstView = <<>> /\ r.ret = 0
                         THEN <<r.obj.iaBinaryData_>> ELSE firstView
    /\ UNCHANGED aiqVars

----------------------------------------------------------------------------
\* The engine and the parameter encoder (environment of AIQ).

\* nullptr as an ia_aiq *
NullHandle == 0
\* the indeterminate value of an ia_aiq * that was never assigned: AIQ::AIQ()
\* does not initialise aiq_. It is no handle the engine ever returned.
UnsetHandle == -1

Handles == {UnsetHandle, NullHandle} \cup (1..MaxEngines)

\* ia_err: ia_err_none, and one value standing for every error code.
ia_err_none    == 0
ia_err_general == 1
IaErrs == {ia_err_none, ia_err_general}

\* Contents of an aic_config.
ConfigValues == 0..MaxConfig
\* Contents of the ipu3_uapi_params buffer a caller hands to run(): zeroed.
ParamValues  == {0}

\* ParameterEncoder::encode(&config, params): overwrites the buffer with the
\* rendering of the decision, a function of the decision alone.
encode(config, params) == config + 1

\* The lifecycle state of the data model, read off the session's history.
State ==
    IF initRet = <<>> THEN "Uninitialized"
    ELSE IF initRet[1] = 0 THEN "Initialized"
    ELSE "Failed"

\* A record of one call on the session. Optional parts are <<>> or <<x>>.
Call(op, frame, ret) ==
    [op |-> op, frame |-> frame, ret |-> ret,
     engineArg |-> <<>>,  \* the handle passed to ia_aiq_statistics_set / deinit
     err       |-> <<>>,  \* what ia_aiq_statistics_set returned
     encoded   |-> FALSE, \* ParameterEncoder::encode was invoked
     loadRet   |-> <<>>,  \* what aiqb.load() returned inside init()
     created   |-> <<>>,  \* what ia_aiq_init returned
     blobs     |-> <<>>,  \* the three ia_binary_data passed to ia_aiq_init
     files     |-> <<>>,  \* the three calibration resources at init() time
     pin       |-> <<>>,  \* the parameter buffer before run()
     pout      |-> <<>>]  \* the parameter buffer after run()

NoCall == Call("none", <<>>, <<>>)

\* What is kept of a call once another call has followed it.
Brief(c) ==
    [op |-> c.op, frame |-> c.frame, ret |-> c.ret, err |-> c.err,
     pin |-> c.pin, pout |-> c.pout]

----------------------------------------------------------------------------
\* AIQ

\* Mutant: init() ends with "return ret" (the load result) instead of 0.
AIQ_init_returnsLoadRet ==
    /\ initCalls < MaxEngines
    /\ \E f \in PrimaryOutcomes, fn \in OtherOutcomes, fd \in OtherOutcomes,
          created \in {NullHandle, nextHandle} :
         LET aiqb == load(AIQBinaryData, f, nextAddr, Max(f.size, 0))
             nvm  == AIQBinaryData
             aiqd == AIQBinaryData
             ret  == IF created = NullHandle THEN -ENODATA ELSE aiqb.ret
         IN
         /\ aiq_' = created
         /\ initHandle' = <<created>>
         /\ initRet' = <<ret>>
         /\ nextHandle' = IF created = NullHandle
                          THEN nextHandle ELSE nextHandle + 1
         /\ initCalls' = initCalls + 1
         /\ prev' = Brief(last)
         /\ last' = [Call("init", <<>>, <<ret>>) EXCEPT
                        !.loadRet = <<aiqb.ret>>,
                        !.created = <<created>>,
                        !.files = <<[aiqb |-> f, nvm |-> fn, aiqd |-> fd]>>,
                        !.blobs = <<[aiqb |-> aiqb.obj.iaBinaryData_,
                                     nvm  |-> nvm.iaBinaryData_,
                                     aiqd |-> aiqd.iaBinaryData_]>>]
    /\ UNCHANGED <<destroyed, deinitCount>>
    /\ UNCHANGED blobVars

\* Mutant: the null test on ia_aiq_init's result is missing.
AIQ_init_ignoresNull ==
    /\ initCalls < MaxEngines
    /\ \E f \in PrimaryOutcomes, fn \in OtherOutcomes, fd \in OtherOutcomes,
          created \in {NullHandle, nextHandle} :
         LET aiqb == load(AIQBinaryData, f, nextAddr, Max(f.size, 0))
             nvm  == AIQBinaryData
             aiqd == AIQBinaryData
             ret  == 0
         IN
         /\ aiq_' = created
         /\ initHandle' = <<created>>
         /\ initRet' = <<ret>>
         /\ nextHandle' = IF created = NullHandle
                          THEN nextHandle ELSE nextHandle + 1
         /\ initCalls' = initCalls + 1
         /\ prev' = Brief(last)
         /\ last' = [Call("init", <<>>, <<ret>>) EXCEPT
                        !.loadRet = <<aiqb.ret>>,
                        !.created = <<created>>,
                        !.files = <<[aiqb |-> f, nvm |-> fn, aiqd |-> fd]>>,
                        !.blobs = <<[aiqb |-> aiqb.obj.iaBinaryData_,
                                     nvm  |-> nvm.iaBinaryData_,
                                     aiqd |-> aiqd.iaBinaryData_]>>]
    /\ UNCHANGED <<destroyed, deinitCount>>
    /\ UNCHANGED blobVars

\* Mutant: init() also loads the nvm and aiqd blobs from their resources.
AIQ_init_loadsOthers ==
    /\ initCalls < MaxEngines
    /\ \E f \in PrimaryOutcomes, fn \in OtherOutcomes, fd \in OtherOutcomes,
          created \in {NullHandle, nextHandle} :
         LET aiqb == load(AIQBinaryData, f, nextAddr, Max(f.size, 0))
             nvm  == load(AIQBinaryData, fn, nextAddr + 1, Max(fn.size, 0)).obj
             aiqd == load(AIQBinaryData, fd, nextAddr + 2, Max(fd.size, 0)).obj
             ret  == IF created = NullHandle THEN -ENODATA ELSE 0
         IN
         /\ aiq_' = created
         /\ initHandle' = <<created>>
         /\ initRet' = <<ret>>
         /\ nextHandle' = IF created = NullHandle
                          THEN nextHandle ELSE nextHandle + 1
         /\ initCalls' = initCalls + 1
         /\ prev' = Brief(last)
         /\ last' = [Call("init", <<>>, <<ret>>) EXCEPT
                        !.loadRet = <<aiqb.ret>>,
                        !.created = <<created>>,
                        !.files = <<[aiqb |-> f, nvm |-> fn, aiqd |-> fd]>>,
                        !.blobs = <<[aiqb |-> aiqb.obj.iaBinaryData_,
                                     nvm  |-> nvm.iaBinaryData_,
                                     aiqd |-> aiqd.iaBinaryData_]>>]
    /\ UNCHANGED <<destroyed, deinitCount>>
    /\ UNCHANGED blobVars

\* AIQ::init(): load the primary blob into a local (nvm and aiqd stay as
\* constructed, whatever resources exist for them), create the engine with
\* the three locals' views, store the handle, fail only on a null handle.
AIQ_init ==
    /\ initCalls < MaxEngines
    /\ \E f \in PrimaryOutcomes, fn \in OtherOutcomes, fd \in OtherOutcomes,
          created \in {NullHandle, nextHandle} :
         LET aiqb == load(AIQBinaryData, f, nextAddr, Max(f.size, 0))
             nvm  == AIQBinaryData
             aiqd == AIQBinaryData
             ret  == IF created = NullHandle THEN -ENODATA ELSE 0
         IN
         /\ aiq_' = created
         /\ initHandle' = <<created>>
         /\ initRet' = <<ret>>
         /\ nextHandle' = IF created = NullHandle
                          THEN nextHandle ELSE nextHandle + 1
         /\ initCalls' = initCalls + 1
         /\ prev' = Brief(last)
         /\ last' = [Call("init", <<>>, <<ret>>) EXCEPT
                        !.loadRet = <<aiqb.ret>>,
                        !.created = <<created>>,
                        !.files = <<[aiqb |-> f, nvm |-> fn, aiqd |-> fd]>>,
                        !.blobs = <<[aiqb |-> aiqb.obj.iaBinaryData_,
                                     nvm  |-> nvm.iaBinaryData_,
                                     aiqd |-> aiqd.iaBinaryData_]>>]
    /\ UNCHANGED <<destroyed, deinitCount>>
    /\ UNCHANGED blobVars

\* AIQ::configure(): logs and returns 0.
AIQ_configure ==
    /\ prev' = Brief(last)
    /\ last' = Call("configure", <<>>, <<0>>)
    /\ UNCHANGED <<aiq_, initHandle, initRet, destroyed, nextHandle,
                   initCalls, deinitCount>>
    /\ UNCHANGED blobVars

\* Mutant: an engine error is propagated to the caller.
AIQ_setStatistics_returnsError ==
    /\ \E frame \in 0..MaxFrame, err \in IaErrs :
         /\ prev' = Brief(last)
         /\ last' = [Call("setStatistics", <<frame>>,
                          <<IF err # ia_err_none THEN -EINVAL ELSE 0>>) EXCEPT
                        !.engineArg = <<aiq_>>,
                        !.err = <<err>>]
    /\ UNCHANGED <<aiq_, initHandle, initRet, destroyed, nextHandle,
                   initCalls, deinitCount>>
    /\ UNCHANGED blobVars

\* Mutant: an engine error tears the session down (handle dropped).
AIQ_setStatistics_teardown ==
    /\ \E frame \in 0..MaxFrame, err \in IaErrs :
         /\ aiq_' = IF err # ia_err_none THEN NullHandle ELSE aiq_
         /\ prev' = Brief(last)
         /\ last' = [Call("setStatistics", <<frame>>, <<0>>) EXCEPT
                        !.engineArg = <<aiq_>>,
                        !.err = <<err>>]
    /\ UNCHANGED <<initHandle, initRet, destroyed, nextHandle,
                   initCalls, deinitCount>>
    /\ UNCHANGED blobVars

\* AIQ::setStatistics(frame, stats): frame and stats are discarded, an empty
\* ia_aiq_statistics_input_params goes to ia_aiq_statistics_set(aiq_, ...),
\* an error is logged, and 0 is returned.
AIQ_setStatistics ==
    /\ \E frame \in 0..MaxFrame, err \in IaErrs :
         /\ prev' = Brief(last)
         /\ last' = [Call("setStatistics", <<frame>>, <<0>>) EXCEPT
                        !.engineArg = <<aiq_>>,
                        !.err = <<err>>]
    /\ UNCHANGED <<aiq_, initHandle, initRet, destroyed, nextHandle,
                   initCalls, deinitCount>>
    /\ UNCHANGED blobVars

\* Mutant: run() is refused unless the call before it was setStatistics for
\* the same frame.
AIQ_run_requiresStatistics ==
    /\ \E frame \in 0..MaxFrame, pin \in ParamValues, config \in ConfigValues :
         LET fresh == last.op = "setStatistics" /\ last.frame = <<frame>>
             pout  == IF fresh THEN encode(config, pin) ELSE pin
         IN
         /\ prev' = Brief(last)
         /\ last' = [Call("run", <<frame>>,
                          <<IF fresh THEN 0 ELSE -EINVAL>>) EXCEPT
                        !.encoded = fresh,
                        !.pin = <<pin>>,
                        !.pout = <<pout>>]
    /\ UNCHANGED <<aiq_, initHandle, initRet, destroyed, nextHandle,
                   initCalls, deinitCount>>
    /\ UNCHANGED blobVars

\* AIQ::run(frame, params): "aic_config config;" is never written before
\* encode() reads it, so its contents are any value of ConfigValues.
AIQ_run ==
    /\ \E frame \in 0..MaxFrame, pin \in ParamValues, config \in ConfigValues :
         LET pout == encode(config, pin) IN
         /\ prev' = Brief(last)
         /\ last' = [Call("run", <<frame>>, <<0>>) EXCEPT
                        !.encoded = TRUE,
                        !.pin = <<pin>>,
                        !.pout = <<pout>>]
    /\ UNCHANGED <<aiq_, initHandle, initRet, destroyed, nextHandle,
                   initCalls, deinitCount>>
    /\ UNCHANGED blobVars

\* AIQ::~AIQ(): ia_aiq_deinit(aiq_), whatever aiq_ holds. The member is not
\* cleared; once the object's lifetime has ended a later read of it yields
\* the old value or an indeterminate one.
AIQ_dtor ==
    /\ destroyed < MaxDestroy
    /\ destroyed' = destroyed + 1
    /\ deinitCount' = [deinitCount EXCEPT ![aiq_] = @ + 1]
    /\ aiq_' \in {aiq_, UnsetHandle}
    /\ prev' = Brief(last)
    /\ last' = [Call("destroy", <<>>, <<>>) EXCEPT !.engineArg = <<aiq_>>]
    /\ UNCHANGED <<initHandle, initRet, nextHandle, initCalls>>
    /\ UNCHANGED blobVars

----------------------------------------------------------------------------
\* Specifications.

\* The state after AIQ::AIQ() and AIQBinaryData::AIQBinaryData().
Init ==
    /\ blob = AIQBinaryData
    /\ nextAddr = 1
    /\ lastLoad = <<>>
    /\ prevLoad = <<>>
    /\ firstView = <<>>
    /\ aiq_ \in {NullHandle, UnsetHandle}
    /\ initHandle = <<>>
    /\ initRet = <<>>
    /\ destroyed = 0
    /\ nextHandle = 1
    /\ initCalls = 0
    /\ deinitCount = [h \in Handles |-> 0]
    /\ last = NoCall
    /\ prev = Brief(NoCall)

\* The calls a pipeline handler can make on one AIQ session.
Next ==
    \/ AIQ_init
    \/ AIQ_configure
    \/ AIQ_setStatistics
    \/ AIQ_run
    \/ AIQ_dtor

Spec == Init /\ [][Next]_vars

\* The calls that can be made on one AIQBinaryData object.
BlobNext == AIQBinaryData_load

BlobSpec == Init /\ [][BlobNext]_vars

----------------------------------------------------------------------------
\* Vocabulary of the properties.

PerFrameOps == {"setStatistics", "run", "configure"}

\* call c reached the engine and the engine reported an error
EngineError(c) == c.err # <<>> /\ c.err # <<ia_err_none>>

\* The failure condition of the loader that file outcome f falls under.
Cond(f) ==
    IF ~f.exists THEN "NotFound"
    ELSE IF ~f.opens THEN "AccessDenied"
    ELSE IF f.size < 0 THEN "Indeterminate"
    ELSE IF f.read # f.size THEN "Truncated"
    ELSE "Ok"

----------------------------------------------------------------------------
\* Properties.

\* C1: on a session on which init() was never called, or which has been
\* destroyed, setStatistics, run and configure return a non-zero error, pass
\* no handle to the engine and do not invoke the parameter encoder.
C1_GuardedOutsideInitialized ==
    (initRet = <<>> \/ destroyed > 0) /\ last.op \in PerFrameOps
        => /\ last.ret # <<0>>
           /\ last.engineArg = <<>>
           /\ ~last.encoded

\* C2: when ia_aiq_init returned null, init() returned failure, the session
\* is Failed, and every later setStatistics, run or configure returns an
\* error, run without invoking ParameterEncoder::encode.
C2_FailedRejectsCalls ==
    initHandle = <<NullHandle>>
        => /\ initRet # <<0>>
           /\ State = "Failed"
           /\ last.op \in PerFrameOps
                => last.ret # <<0>> /\ ~last.encoded

\* C3: ia_aiq_deinit is called at most once per created engine instance and
\* never with a null or never-assigned handle.
C3_DeinitOncePerEngine ==
    /\ deinitCount[NullHandle] = 0
    /\ deinitCount[UnsetHandle] = 0
    /\ \A h \in 1..MaxEngines : deinitCount[h] <= 1

\* C4: whatever aiqb.load() returned, an init() in which ia_aiq_init returned
\* a non-null handle returns 0 and leaves the session Initialized.
C4_LoadNeverFailsInit ==
    last.op = "init" /\ last.created # <<NullHandle>>
        => /\ last.ret = <<0>>
           /\ State = "Initialized"
           /\ aiq_ = last.created[1]

\* C4 witness: init() succeeded although the calibration resource was missing.
C4_Witness ==
    /\ last.op = "init"
    /\ last.loadRet = <<-ENOENT>>
    /\ last.created # <<NullHandle>>
    /\ last.ret = <<0>>

\* C5 as stated: a setStatistics call in which ia_aiq_statistics_set reported
\* an error returns a failure indication.
C5_EngineErrorReturned ==
    last.op = "setStatistics" /\ EngineError(last) => last.ret # <<0>>

\* C5 as amended: setStatistics returns 0 also when ia_aiq_statistics_set
\* reported an error (the error is only logged); run makes no engine call and
\* returns 0.
C5_EngineErrorSwallowed ==
    /\ last.op = "setStatistics" => last.ret = <<0>> /\ last.engineArg # <<>>
    /\ last.op = "run" => last.ret = <<0>> /\ last.err = <<>>
                          /\ last.engineArg = <<>>

\* C5 witness: an Initialized session, the engine reported an error, 0 returned.
C5_Witness ==
    /\ State = "Initialized" /\ destroyed = 0
    /\ last.op = "setStatistics"
    /\ EngineError(last)
    /\ last.ret = <<0>>

\* C6: an engine error in setStatistics for frame K does not end the session:
\* it stays Initialized with the handle init() stored, still unreleased, and
\* a following setStatistics or run without engine error returns 0 (and
\* setStatistics hands that same handle to the engine).
C6_ErrorIsolated ==
    State = "Initialized" /\ destroyed = 0
    /\ (EngineError(last) \/ EngineError(prev))
        => /\ aiq_ = initHandle[1]
           /\ aiq_ \in 1..MaxEngines
           /\ deinitCount[aiq_] = 0
           /\ EngineError(prev) /\ last.op \in {"setStatistics", "run"}
              /\ ~EngineError(last)
                => /\ last.ret = <<0>>
                   /\ last.op = "setStatistics"
                        => last.engineArg = initHandle

\* C6 witness: setStatistics(K) met an engine error, setStatistics(K+1) then
\* succeeded on the same session.
C6_Witness ==
    /\ State = "Initialized" /\ destroyed = 0
    /\ prev.op = "setStatistics" /\ EngineError(prev)
    /\ last.op = "setStatistics" /\ ~EngineError(last)
    /\ last.frame = <<prev.frame[1] + 1>>
    /\ last.ret = <<0>>

\* C7 as stated: two loads that failed under different conditions returned
\* different error values.
C7_DistinctErrors ==
    lastLoad # <<>> /\ prevLoad # <<>>
    /\ lastLoad[1].ret # 0 /\ prevLoad[1].ret # 0
    /\ Cond(lastLoad[1].file) # Cond(prevLoad[1].file)
        => lastLoad[1].ret # prevLoad[1].ret

\* C7 as amended: not found gives -ENOENT, open failure -EINVAL, size
\* failure -ENODATA, short read -EINVAL; two different failure conditions
\* return the same value only when they are open failure and short read.
C7_ErrorTable ==
    lastLoad # <<>> =>
        LET c == Cond(lastLoad[1].file)
            r == lastLoad[1].ret
        IN
        /\ c = "NotFound"      => r = -ENOENT
        /\ c = "AccessDenied"  => r = -EINVAL
        /\ c = "Indeterminate" => r = -ENODATA
        /\ c = "Truncated"     => r = -EINVAL
        /\ c = "Ok"            => r = 0
        /\ prevLoad # <<>> /\ r # 0 /\ prevLoad[1].ret = r
           /\ Cond(prevLoad[1].file) # c
             => {c, Cond(prevLoad[1].file)} = {"AccessDenied", "Truncated"}

\* C7 witness: an open failure and a short read both returned -EINVAL.
C7_Witness ==
    /\ lastLoad # <<>> /\ prevLoad # <<>>
    /\ Cond(prevLoad[1].file) = "AccessDenied"
    /\ Cond(lastLoad[1].file) = "Truncated"
    /\ prevLoad[1].ret = -EINVAL
    /\ lastLoad[1].ret = -EINVAL

\* C8: when load returns 0, the view's size equals the number of bytes read,
\* the size of the owned buffer and the size of the resource.
C8_SizeIsBytesRead ==
    lastLoad # <<>> /\ lastLoad[1].ret = 0
        => /\ blob.iaBinaryData_.size = lastLoad[1].file.read
           /\ blob.iaBinaryData_.size = blob.data_.size
           /\ blob.iaBinaryData_.size = lastLoad[1].file.size

\* C8 witness: a successful load of a non-empty resource, after an earlier load.
C8_Witness ==
    /\ lastLoad # <<>> /\ prevLoad # <<>>
    /\ lastLoad[1].ret = 0
    /\ lastLoad[1].file.size > 0
    /\ blob.iaBinaryData_.size = lastLoad[1].file.size

\* C9: once a load has succeeded and set the view on a buffer, the view stays
\* valid whatever loads follow, succeeding or failing: its pointer is the
\* owned buffer (no reallocation under it) and its size is the buffer's size
\* (no resize under it).
C9_ViewStable ==
    firstView # <<>> /\ firstView[1].data # NullPtr
        => /\ blob.iaBinaryData_.data = blob.data_.addr
           /\ blob.iaBinaryData_.size = blob.data_.size

\* C10: two run() calls from the same engine state (nothing happened between
\* them) with equal parameter buffers before the call leave equal parameter
\* buffers after it.
C10_RunDeterministic ==
    prev.op = "run" /\ last.op = "run" /\ prev.pin = last.pin
        => prev.pout = last.pout

\* C11: over any sequence of calls on one session, ia_aiq_init is invoked at
\* most once, and no engine handle it returned is dropped from aiq_ without
\* having been released by ia_aiq_deinit.
C11_EngineCreatedOnce ==
    /\ initCalls <= 1
    /\ \A h \in 1..MaxEngines :
         h < nextHandle /\ h # aiq_ => deinitCount[h] >= 1

\* C12: in every reachable state aiq_ is non-null only between a successful
\* init() and deinit: null from construction until init() succeeds, null
\* after a failed init(), null again once destruction has released it.
C12_HandleNonNullOnlyWhileLive ==
    aiq_ # NullHandle => State = "Initialized" /\ destroyed = 0

\* C13: in an Initialized session run() returns 0, invokes the encoder and
\* leaves the session Initialized with its handle, whatever call came before
\* it: no setStatistics, a setStatistics for another frame, or another run.
C13_RunAnyOrder ==
    State = "Initialized" /\ destroyed = 0 /\ last.op = "run"
        => /\ last.ret = <<0>>
           /\ last.encoded
           /\ aiq_ = initHandle[1]
           /\ deinitCount[aiq_] = 0

\* C13 witness: run(K) right after setStatistics for a different frame.
C13_Witness ==
    /\ State = "Initialized" /\ destroyed = 0
    /\ prev.op = "setStatistics"
    /\ last.op = "run"
    /\ last.frame # prev.frame
    /\ last.ret = <<0>>

\* C15: init() returns 0 exactly when the handle it stored in aiq_ is
\* non-null; when ia_aiq_init returned null, init() returns non-zero and the
\* stored handle is null.
C15_InitRetIffHandle ==
    last.op = "init"
        => /\ aiq_ = last.created[1]
           /\ last.ret = <<0>> <=> aiq_ # NullHandle
           /\ last.created = <<NullHandle>>
                => last.ret # <<0>> /\ aiq_ = NullHandle

\* C15 witness: ia_aiq_init returned null, init() returned -ENODATA.
C15_Witness ==
    /\ last.op = "init"
    /\ last.created = <<NullHandle>>
    /\ last.ret = <<-ENODATA>>
    /\ aiq_ = NullHandle

\* C16: a configure, setStatistics or run step changes neither aiq_ nor the
\* lifecycle (init result, destruction, engines created or released),
\* whether or not the engine reported an error.
C16_PerFrameCallsKeepHandle ==
    [][last'.op \in PerFrameOps
         => UNCHANGED <<aiq_, initHandle, initRet, destroyed, nextHandle,
                        initCalls, deinitCount>>]_vars

\* C16 witness: after a setStatistics that met an engine error, aiq_ is the
\* handle init() stored.
C16_Witness ==
    /\ initHandle # <<>> /\ initHandle # <<NullHandle>> /\ destroyed = 0
    /\ last.op = "setStatistics"
    /\ EngineError(last)
    /\ aiq_ = initHandle[1]

\* resource f loads and yields at least one byte
Loaded(f) == Cond(f) = "Ok" /\ f.size > 0

\* ia_binary_data b carries nothing
NullBlob(b) == b.data = NullPtr \/ b.size = 0

\* C14 as stated: each of the three blobs passed to ia_aiq_init is
\* null/zero-size exactly when its resource failed to load; with the primary
\* resource missing and the other two present, init() succeeds (the engine
\* being created), the primary blob is null and the other two carry their
\* resources' contents.
C14_BlobsReflectResources ==
    last.op = "init" =>
        LET fs == last.files[1]
            bs == last.blobs[1]
        IN
        /\ \A k \in {"aiqb", "nvm", "aiqd"} : NullBlob(bs[k]) <=> ~Loaded(fs[k])
        /\ Cond(fs.aiqb) = "NotFound" /\ Loaded(fs.nvm) /\ Loaded(fs.aiqd)
             => /\ last.created # <<NullHandle>> => last.ret = <<0>>
                /\ NullBlob(bs.aiqb)
                /\ bs.nvm.size = fs.nvm.size
                /\ bs.aiqd.size = fs.aiqd.size

\* C14 as amended: init() succeeds whenever the engine is created; only the
\* primary blob is ever loaded: it is null/zero-size exactly when its
\* resource failed to load (or is empty) and otherwise has the resource's
\* size; the nvm and aiqd blobs are always passed null with size 0, whether
\* or not their resources are present.
C14_OnlyPrimaryLoaded ==
    last.op = "init" =>
        LET fs == last.files[1]
            bs == last.blobs[1]
        IN
        /\ last.created # <<NullHandle>> => last.ret = <<0>>
        /\ NullBlob(bs.aiqb) <=> ~Loaded(fs.aiqb)
        /\ Loaded(fs.aiqb) => bs.aiqb.size = fs.aiqb.size
        /\ bs.nvm = [data |-> NullPtr, size |-> 0]
        /\ bs.aiqd = [data |-> NullPtr, size |-> 0]

\* C14 witness: primary resource missing, the other two present, the engine
\* created: init() returned 0 and all three blobs were passed null.
C14_Witness ==
    /\ last.op = "init"
    /\ Cond(last.files[1].aiqb) = "NotFound"
    /\ Loaded(last.files[1].nvm) /\ Loaded(last.files[1].aiqd)
    /\ last.created # <<NullHandle>>
    /\ last.ret = <<0>>
    /\ NullBlob(last.blobs[1].aiqb)
    /\ NullBlob(last.blobs[1].nvm) /\ NullBlob(last.blobs[1].aiqd)

\* C17: the first load on a freshly constructed AIQBinaryData checks
\* existence, open, size and read in that order and stops at the first
\* failure (a failure before the read leaves the object as constructed); the
\* view is set only when all four pass: after any error it is still
\* (nullptr, 0), and it is non-null only if load returned 0.
C17_FirstLoadOrderAndView ==
    lastLoad # <<>> /\ prevLoad = <<>> =>
        LET f == lastLoad[1].file
            r == lastLoad[1].ret
        IN
        /\ ~f.exists => r = -ENOENT /\ blob = AIQBinaryData
        /\ f.exists /\ ~f.opens => r = -EINVAL /\ blob = AIQBinaryData
        /\ f.exists /\ f.opens /\ f.size < 0
             => r = -ENODATA /\ blob = AIQBinaryData
        /\ f.exists /\ f.opens /\ f.size >= 0 /\ f.read # f.size
             => r = -EINVAL /\ blob.data_.size = f.size
        /\ f.exists /\ f.opens /\ f.size >= 0 /\ f.read = f.size => r = 0
        /\ r # 0 => blob.iaBinaryData_ = [data |-> NullPtr, size |-> 0]
        /\ blob.iaBinaryData_.data # NullPtr => r = 0

\* C17 witness: the first load got as far as the read, which came back short:
\* the buffer was resized and the view is still (nullptr, 0).
C17_Witness ==
    /\ lastLoad # <<>> /\ prevLoad = <<>>
    /\ Cond(lastLoad[1].file) = "Truncated"
    /\ lastLoad[1].file.size > 0
    /\ lastLoad[1].ret = -EINVAL
    /\ blob.data_.size = lastLoad[1].file.size
    /\ blob.iaBinaryData_ = [data |-> NullPtr, size |-> 0]

====
